---------------------------- MODULE Spec2Model ----------------------------
(***************************************************************************)
(* A model of scripts/rag_engine.py: the chunker (_split_text), the index  *)
(* manager (index_document, delete_document, reset_knowledge_base), the    *)
(* catalog view (list_documents, get_stats) and the query engine (query),  *)
(* over a persistent ChromaDB collection.                                  *)
(*                                                                         *)
(* Five specifications share the module:                                   *)
(*   SpecSplit  the while loop of _split_text, one iteration per step      *)
(*   Spec       the public operations, each run to completion, with store, *)
(*              loader and embedding calls allowed to raise                *)
(*   SpecConc   two index_document calls on one source, interleaved at the *)
(*              granularity of their store calls                           *)
(*   SpecQuery  query() on collections of every size                       *)
(*   SpecLazy   concurrent first uses of _get_collection and of            *)
(*              _get_embedding_model, one statement per step               *)
(***************************************************************************)
EXTENDS Integers, Sequences, FiniteSets, TLC

VARIABLES
    \* _split_text: its arguments, its locals and its position
    sText, sSize, sOverlap, sStart, sChunks, sPc,
    \* the persisted collection and the module globals of rag_engine.py
    store, client, coll, embModel,
    \* the last completed public operation, and the records of each
    \* source's most recent successful indexing
    last, lastGood,
    \* two concurrent index_document calls: where each is, what it indexes,
    \* the ids its scan collected, and the order of the inserts
    pc, job, scanned, inserted,
    \* the last query() call
    qry,
    \* concurrent first uses of the lazy getters: where each thread is in
    \* the getter and how many calls it has made; the instances the globals
    \* refer to (0 for None); how many instances of each kind have been
    \* constructed; and the instance each thread was last handed
    tpc, calls, instance, built, got

splitVars == <<sText, sSize, sOverlap, sStart, sChunks, sPc>>
storeVars == <<store, client, coll, embModel>>
histVars  == <<last, lastGood>>
concVars  == <<pc, job, scanned, inserted>>
lazyVars  == <<tpc, calls, instance, built, got>>
vars == <<sText, sSize, sOverlap, sStart, sChunks, sPc, store, client, coll,
          embModel, last, lastGood, pc, job, scanned, inserted, qry,
          tpc, calls, instance, built, got>>

Min(a, b) == IF a <= b THEN a ELSE b
Max(a, b) == IF a >= b THEN a ELSE b

(***************************************************************************)
(* Texts are sequences of characters.                                      *)
(***************************************************************************)
NL == "\n"
Whitespace == {" ", NL}

\* text[a:b] of Python: 0-based, a negative index counts from the end, and
\* both ends are clipped to the text
SliceIndex(t, i) == IF i < 0 THEN Max(Len(t) + i, 0) ELSE Min(i, Len(t))
Slice(t, a, b) == SubSeq(t, SliceIndex(t, a) + 1, SliceIndex(t, b))

\* str.strip()
RECURSIVE LStrip(_)
LStrip(t) == IF t # <<>> /\ Head(t) \in Whitespace THEN LStrip(Tail(t)) ELSE t
RECURSIVE RStrip(_)
RStrip(t) ==
    IF t # <<>> /\ t[Len(t)] \in Whitespace
    THEN RStrip(SubSeq(t, 1, Len(t) - 1))
    ELSE t
Strip(t) == RStrip(LStrip(t))

\* the boundary markers of _split_text, in the order the loop tries them;
\* the three full-width marks U+3002, U+FF01, U+FF1F are single characters,
\* written here by their code points
Separators ==
    << <<"U3002">>, <<"UFF01">>, <<"UFF1F">>, <<NL, NL>>, <<NL>>,
       <<".">>, <<"!">>, <<"?">> >>

\* str.rfind(sep): the highest 0-based index where sep starts, or -1
RFind(t, sep) ==
    LET hits == {i \in 0..(Len(t) - Len(sep)) : Slice(t, i, i + Len(sep)) = sep}
    IN  IF hits = {} THEN -1 ELSE CHOOSE i \in hits : \A j \in hits : j <= i

\* the for loop over the separators: the first separator, in order, whose
\* last occurrence lies beyond chunk_size // 2 cuts the chunk after it
RECURSIVE SnapFrom(_, _, _)
SnapFrom(chunk, size, k) ==
    IF k > Len(Separators) THEN chunk
    ELSE LET last_sep == RFind(chunk, Separators[k])
         IN  IF last_sep > size \div 2
             THEN Slice(chunk, 0, last_sep + 1)
             ELSE SnapFrom(chunk, size, k + 1)

\* the chunk one loop iteration takes at position start (before strip)
WindowChunk(text, size, start) ==
    LET end   == start + size
        chunk == Slice(text, start, end)
    IN  IF end < Len(text) THEN SnapFrom(chunk, size, 1) ELSE chunk

\* start += len(chunk) - chunk_overlap
NextStart(text, size, overlap, start) ==
    start + Len(WindowChunk(text, size, start)) - overlap

\* return [c for c in chunks if c.strip()]
NonBlank(chunks) == SelectSeq(chunks, LAMBDA c : Strip(c) # <<>>)


\* _split_text as a whole.  The while loop is deterministic in start, so it
\* runs forever exactly when it comes back to a position it has been at;
\* ok = FALSE then, and the call never returns.
RECURSIVE SplitLoop(_, _, _, _, _, _)
SplitLoop(text, size, overlap, start, chunks, seen) ==
    IF ~(start < Len(text)) THEN [ok |-> TRUE, chunks |-> NonBlank(chunks)]
    ELSE IF start \in seen THEN [ok |-> FALSE, chunks |-> <<>>]
    ELSE SplitLoop(text, size, overlap, NextStart(text, size, overlap, start),
                   Append(chunks, Strip(WindowChunk(text, size, start))),
                   seen \cup {start})

SplitText(text, size, overlap) ==
    IF Len(text) <= size THEN [ok |-> TRUE, chunks |-> <<text>>]
    ELSE SplitLoop(text, size, overlap, 0, <<>>, {})

(***************************************************************************)
(* SpecSplit: _split_text one loop iteration at a time.                    *)
(***************************************************************************)
\* bounds of the texts and configurations tried
MaxLen == 6
MaxSize == 5
\* iterations after which a run is cut off; a terminating run on a text
\* of MaxLen characters needs fewer
MaxIter == 8

Alphabet == {"a", " ", ".", NL}
RECURSIVE TextsOfLen(_)
TextsOfLen(n) ==
    IF n = 0 THEN {<<>>}
    ELSE {Append(t, c) : t \in TextsOfLen(n - 1), c \in Alphabet}
Texts == UNION {TextsOfLen(n) : n \in 0..MaxLen}

\* the arguments the claim calls valid: chunk_size > 0, 0 <= overlap < size
ValidConfig(size, overlap) == size > 0 /\ 0 <= overlap /\ overlap < size

\* if len(text) <= chunk_size: return [text]
SplitShort ==
    /\ sPc = "entry"
    /\ Len(sText) <= sSize
    /\ sChunks' = <<sText>>
    /\ sPc' = "done"
    /\ UNCHANGED <<sText, sSize, sOverlap, sStart>>
    /\ UNCHANGED <<store, client, coll, embModel, last, lastGood,
                   pc, job, scanned, inserted, qry, lazyVars>>

\* chunks = []; start = 0
SplitEnter ==
    /\ sPc = "entry"
    /\ Len(sText) > sSize
    /\ sChunks' = <<>>
    /\ sStart' = 0
    /\ sPc' = "loop"
    /\ UNCHANGED <<sText, sSize, sOverlap>>
    /\ UNCHANGED <<store, client, coll, embModel, last, lastGood,
                   pc, job, scanned, inserted, qry, lazyVars>>

\* one iteration of the while loop
SplitIter ==
    /\ sPc = "loop"
    /\ sStart < Len(sText)
    /\ Len(sChunks) < MaxIter
    /\ sChunks' = Append(sChunks, Strip(WindowChunk(sText, sSize, sStart)))
    /\ sStart' = NextStart(sText, sSize, sOverlap, sStart)
    /\ UNCHANGED <<sText, sSize, sOverlap, sPc>>
    /\ UNCHANGED <<store, client, coll, embModel, last, lastGood,
                   pc, job, scanned, inserted, qry, lazyVars>>

\* the loop condition fails: return [c for c in chunks if c.strip()]
SplitExit ==
    /\ sPc = "loop"
    /\ ~(sStart < Len(sText))
    /\ sChunks' = NonBlank(sChunks)
    /\ sPc' = "done"
    /\ UNCHANGED <<sText, sSize, sOverlap, sStart>>
    /\ UNCHANGED <<store, client, coll, embModel, last, lastGood,
                   pc, job, scanned, inserted, qry, lazyVars>>


SplitNext == SplitShort \/ SplitEnter \/ SplitIter \/ SplitExit

(***************************************************************************)
(* The collection, the loader and the identity assigner.                   *)
(***************************************************************************)
\* the source paths of the model: two files of one name in two directories,
\* and a third of another name
Paths == {"/docs/a.md", "/tmp/a.md", "/docs/b.md"}

\* Path(file_path).name
Basename(p) ==
    CASE p = "/docs/a.md" -> "a.md"
      [] p = "/tmp/a.md"  -> "a.md"
      [] p = "/docs/b.md" -> "b.md"

\* hashlib.md5(file_path.encode()).hexdigest()[:8], as md5 computes it
HashPrefix(p) ==
    CASE p = "/docs/a.md" -> "0f805578"
      [] p = "/tmp/a.md"  -> "0fc6803b"
      [] p = "/docs/b.md" -> "26ea1d4f"

\* _get_doc_id: f"{hash_val}_{chunk_index}", kept as the pair it is built from
GetDocId(p, i) == <<HashPrefix(p), i>>

\* chunking configuration of the model (config.yaml: chunk_size, chunk_overlap)
CfgChunkSize == 3
CfgChunkOverlap == 1

\* what a file may hold when it is indexed: its sections, as the loader
\* finds them.  DocBlank is an empty file; DocLong has a section longer
\* than the chunk size.
DocBlank == << <<" ">> >>
DocA == << <<"a", "b">> >>
DocB == << <<"c", "d">>, <<"e", " ">> >>
DocLong == << <<"a", "b", ".", "c">> >>
Docs == {DocBlank, DocA, DocB, DocLong}

\* load_document / _build_chunk: one raw chunk per section, its text
\* stripped, its metadata naming the source and its basename
LoadDocument(p, doc) ==
    [k \in 1..Len(doc) |->
        [text |-> Strip(doc[k]),
         metadata |-> [source |-> p, filename |-> Basename(p)]]]

\* index_document, lines 124-131: split every raw chunk and flatten, the
\* metadata inherited; ok = FALSE when _split_text does not return
RECURSIVE FlattenFrom(_, _)
FlattenFrom(raw, k) ==
    IF k > Len(raw) THEN [ok |-> TRUE, chunks |-> <<>>]
    ELSE LET sp   == SplitText(raw[k].text, CfgChunkSize, CfgChunkOverlap)
             subs == NonBlank(sp.chunks)
             rest == FlattenFrom(raw, k + 1)
         IN  IF ~sp.ok \/ ~rest.ok THEN [ok |-> FALSE, chunks |-> <<>>]
             ELSE [ok |-> TRUE,
                   chunks |-> [i \in 1..Len(subs) |->
                                 [text |-> subs[i], metadata |-> raw[k].metadata]]
                              \o rest.chunks]

ChunkTable ==
    [p \in Paths, doc \in Docs |-> FlattenFrom(LoadDocument(p, doc), 1)]
AllChunks(p, doc) == ChunkTable[p, doc]

\* the records index_document hands to collection.add: ids by ordinal
\* (the embeddings are a function of the texts and are not kept)
Records(p, chunks) ==
    {[id |-> GetDocId(p, i - 1), text |-> chunks[i].text,
      metadata |-> chunks[i].metadata] : i \in 1..Len(chunks)}

Ids(s) == {r.id : r \in s}

\* collection.add: a record whose id the collection already holds is
\* ignored, without an error (ChromaDB's add, as PersistentClient ships it)
StoreAdd(s, recs) == s \cup {r \in recs : r.id \notin Ids(s)}

\* a scan that compares the source only
MatchingSourceOnly(s, p) == {r \in s : r.metadata.source = p}

\* delete_document, lines 250-252: the records the metadata scan picks
Matching(s, p) ==
    {r \in s : r.metadata.source = p \/ r.metadata.filename = Basename(p)}

\* _get_collection from globals (cl, co) = (_chroma_client is not None,
\* _collection is not None); f names the call that raises, if any:
\* "client" chromadb.PersistentClient, "create" get_or_create_collection
GetCollection(cl, co, f) ==
    IF co THEN [client |-> cl, coll |-> co, ok |-> TRUE]
    ELSE IF f = "client" THEN [client |-> cl, coll |-> FALSE, ok |-> FALSE]
    ELSE IF f = "create" THEN [client |-> TRUE, coll |-> FALSE, ok |-> FALSE]
    ELSE [client |-> TRUE, coll |-> TRUE, ok |-> TRUE]


(***************************************************************************)
(* The public operations, as functions of the collection s, the globals    *)
(* (cl, co, em) and a fault f naming the calls that raise.  Each returns   *)
(* the collection and globals it leaves, its result, and "raised": the     *)
(* call that did raise during it, or "none".                               *)
(***************************************************************************)
InitFaults == {"none", "client", "create"}
DeleteFaults == InitFaults \cup {"get", "delete"}

\* delete_document
DeleteDocument(s, cl, co, p, f) ==
    LET gc  == GetCollection(cl, co, f)
        ids == Matching(s, p)
        failed(why) ==
            [store |-> s, client |-> gc.client, coll |-> gc.coll,
             success |-> FALSE, deleted |-> 0, raised |-> why]
    IN  IF ~gc.ok THEN failed("collection")
        ELSE IF f = "get" THEN failed("get")
        ELSE IF ids # {}
             THEN IF f = "delete" THEN failed("delete")
                  ELSE [store |-> s \ ids, client |-> gc.client, coll |-> gc.coll,
                        success |-> TRUE, deleted |-> Cardinality(ids),
                        raised |-> "none"]
             ELSE [store |-> s, client |-> gc.client, coll |-> gc.coll,
                   success |-> TRUE, deleted |-> 0, raised |-> "none"]

\* the fault of one index_document call, naming the call that raises: the
\* loader; the loading of the embedding model or its encode; in the delete
\* step, _get_collection, collection.get or collection.delete; in the
\* insert step, _get_collection or collection.add
IndexFaults ==
    {"none", "load", "embed_init", "encode", "del_client", "del_create",
     "del_get", "del_delete", "add_client", "add_create", "add"}

DeleteFaultOf(f) ==
    CASE f = "del_client" -> "client"
      [] f = "del_create" -> "create"
      [] f = "del_get"    -> "get"
      [] f = "del_delete" -> "delete"
      [] OTHER            -> "none"

InsertFaultOf(f) ==
    CASE f = "add_client" -> "client"
      [] f = "add_create" -> "create"
      [] OTHER            -> "none"

\* index_document with its delete step run ahead of the embedding
IndexDocumentDeleteFirst(s, cl, co, em, p, doc, f) ==
    LET all == AllChunks(p, doc)
        d   == DeleteDocument(s, cl, co, p, DeleteFaultOf(f))
        gc  == GetCollection(d.client, d.coll, InsertFaultOf(f))
        failed(s2, cl2, co2, em2, why) ==
            [store |-> s2, client |-> cl2, coll |-> co2, embModel |-> em2,
             success |-> FALSE, chunks |-> 0, raised |-> why]
    IN  IF f = "load" THEN failed(s, cl, co, em, "load")
        ELSE IF ~all.ok THEN failed(s, cl, co, em, "split")
        ELSE IF all.chunks = <<>> THEN failed(s, cl, co, em, "none")
        ELSE IF f = "embed_init" /\ ~em
        THEN failed(d.store, d.client, d.coll, em, "embed")
        ELSE IF f = "encode"
        THEN failed(d.store, d.client, d.coll, TRUE, "embed")
        ELSE IF ~gc.ok
        THEN failed(d.store, gc.client, gc.coll, TRUE, "collection")
        ELSE IF f = "add"
        THEN failed(d.store, gc.client, gc.coll, TRUE, "add")
        ELSE [store |-> StoreAdd(d.store, Records(p, all.chunks)),
              client |-> gc.client, coll |-> gc.coll, embModel |-> TRUE,
              success |-> TRUE, chunks |-> Len(all.chunks),
              raised |-> d.raised]

\* index_document
IndexDocument(s, cl, co, em, p, doc, f) ==
    LET all == AllChunks(p, doc)
        failed(s2, cl2, co2, em2, why) ==
            [store |-> s2, client |-> cl2, coll |-> co2, embModel |-> em2,
             success |-> FALSE, chunks |-> 0, raised |-> why]
    IN  IF f = "load" THEN failed(s, cl, co, em, "load")
        \* a loop that never ends grows chunks until memory runs out
        ELSE IF ~all.ok THEN failed(s, cl, co, em, "split")
        ELSE IF all.chunks = <<>> THEN failed(s, cl, co, em, "none")
        ELSE IF f = "embed_init" /\ ~em THEN failed(s, cl, co, em, "embed")
        ELSE IF f = "encode" THEN failed(s, cl, co, TRUE, "embed")
        ELSE LET d  == DeleteDocument(s, cl, co, p, DeleteFaultOf(f))
                 gc == GetCollection(d.client, d.coll, InsertFaultOf(f))
             IN  IF ~gc.ok
                 THEN failed(d.store, gc.client, gc.coll, TRUE, "collection")
                 ELSE IF f = "add"
                 THEN failed(d.store, gc.client, gc.coll, TRUE, "add")
                 ELSE [store |-> StoreAdd(d.store, Records(p, all.chunks)),
                       client |-> gc.client, coll |-> gc.coll, embModel |-> TRUE,
                       success |-> TRUE, chunks |-> Len(all.chunks),
                       raised |-> d.raised]

\* reset_knowledge_base: drop names whether delete_collection raises, f the
\* fault of the _get_collection call that recreates the collection
ResetKnowledgeBase(s, cl, co, drop, f) ==
    LET s2 == IF cl /\ ~drop THEN {} ELSE s
        gc == GetCollection(FALSE, FALSE, f)
    IN  [store |-> s2, client |-> gc.client, coll |-> gc.coll,
         success |-> gc.ok,
         raised |-> IF ~gc.ok THEN "collection"
                    ELSE IF cl /\ drop THEN "delete_collection" ELSE "none"]

\* list_documents, on a collection that answers: one entry per source
ListDocuments(s) ==
    {[source |-> src,
      filename |-> (CHOOSE r \in s : r.metadata.source = src).metadata.filename,
      chunks |-> Cardinality({r \in s : r.metadata.source = src})]
        : src \in {r.metadata.source : r \in s}}

StatsFaults == InitFaults \cup {"count", "list"}

\* get_stats
GetStats(s, cl, co, f) ==
    LET gc == GetCollection(cl, co, f)
    IN  IF ~gc.ok \/ f = "count"
        THEN [client |-> gc.client, coll |-> gc.coll,
              total_documents |-> 0, total_chunks |-> 0, error |-> TRUE]
        ELSE [client |-> gc.client, coll |-> gc.coll,
              total_documents |->
                  IF f = "list" THEN 0 ELSE Cardinality(ListDocuments(s)),
              total_chunks |-> Cardinality(s), error |-> FALSE]


(***************************************************************************)
(* Spec: the public operations, each run to completion, and the restart    *)
(* of the process (the collection is on disk and survives it).             *)
(***************************************************************************)
NoOp == [op |-> "start", path |-> "-", success |-> TRUE,
         n |-> 0, docs |-> 0, raised |-> "none"]

SplitIdle ==
    /\ sText = <<>> /\ sSize = 1 /\ sOverlap = 0
    /\ sStart = 0 /\ sChunks = <<>> /\ sPc = "idle"
ConcIdle ==
    /\ pc = <<>> /\ job = <<>> /\ scanned = <<>> /\ inserted = <<>>
QueryIdle == qry = [op |-> "idle"]
LazyIdle ==
    /\ tpc = <<>> /\ calls = <<>> /\ got = <<>>
    /\ instance = [client |-> 0, coll |-> 0, model |-> 0]
    /\ built = [client |-> 0, coll |-> 0, model |-> 0]
StoreIdle ==
    /\ store = {} /\ client = FALSE /\ coll = FALSE /\ embModel = FALSE
    /\ last = NoOp
    /\ lastGood = [p \in Paths |-> {}]

Init == StoreIdle /\ SplitIdle /\ ConcIdle /\ QueryIdle /\ LazyIdle

\* index_document(p) on a file holding doc; the history specification
\* also records what the call indexed when it reports success
IndexCall(track) ==
    \E p \in Paths, doc \in Docs, f \in IndexFaults :
        \E o \in {IndexDocument(store, client, coll, embModel, p, doc, f)} :
            /\ store' = o.store
            /\ client' = o.client
            /\ coll' = o.coll
            /\ embModel' = o.embModel
            /\ last' = [op |-> "index", path |-> p,
                        success |-> o.success, n |-> o.chunks, docs |-> 0,
                        raised |-> o.raised]
            /\ lastGood' = IF track /\ o.success
                           THEN [lastGood EXCEPT
                                   ![p] = Records(p, AllChunks(p, doc).chunks)]
                           ELSE lastGood
            /\ UNCHANGED <<splitVars, concVars, qry, lazyVars>>

Index == IndexCall(FALSE)
IndexTracked == IndexCall(TRUE)

Delete ==
    \E p \in Paths, f \in DeleteFaults :
        \E o \in {DeleteDocument(store, client, coll, p, f)} :
            /\ store' = o.store
            /\ client' = o.client
            /\ coll' = o.coll
            /\ last' = [op |-> "delete", path |-> p,
                        success |-> o.success, n |-> o.deleted, docs |-> 0,
                        raised |-> o.raised]
            /\ UNCHANGED <<embModel, lastGood, splitVars, concVars, qry, lazyVars>>

Reset ==
    \E drop \in BOOLEAN, f \in InitFaults :
        \E o \in {ResetKnowledgeBase(store, client, coll, drop, f)} :
            /\ store' = o.store
            /\ client' = o.client
            /\ coll' = o.coll
            /\ last' = [op |-> "reset", path |-> "-",
                        success |-> o.success, n |-> 0, docs |-> 0,
                        raised |-> o.raised]
            /\ UNCHANGED <<embModel, lastGood, splitVars, concVars, qry, lazyVars>>

Stats ==
    \E f \in StatsFaults :
        \E o \in {GetStats(store, client, coll, f)} :
            /\ client' = o.client
            /\ coll' = o.coll
            /\ last' = [op |-> "stats", path |-> "-",
                        success |-> ~o.error, n |-> o.total_chunks,
                        docs |-> o.total_documents,
                        raised |-> IF o.error THEN "stats" ELSE "none"]
            /\ UNCHANGED <<store, embModel, lastGood, splitVars, concVars, qry, lazyVars>>

\* the process ends and starts again: the module globals are None again
Restart ==
    /\ client' = FALSE
    /\ coll' = FALSE
    /\ embModel' = FALSE
    /\ last' = [NoOp EXCEPT !.op = "restart"]
    /\ UNCHANGED <<store, lastGood, splitVars, concVars, qry, lazyVars>>

Next == Index \/ Delete \/ Reset \/ Stats \/ Restart

Spec == Init /\ [][Next]_vars

(***************************************************************************)
(* C1: for every text and every valid configuration, each iteration of the *)
(* loop of _split_text advances start by at least 1, the iteration on the  *)
(* final window included, so that the loop ends.                           *)
(***************************************************************************)
SplitInit ==
    /\ sText \in Texts
    /\ sSize \in 1..MaxSize
    /\ sOverlap \in 0..(MaxSize - 1)
    /\ ValidConfig(sSize, sOverlap)
    /\ sStart = 0 /\ sChunks = <<>> /\ sPc = "entry"
    /\ store = {} /\ client = FALSE /\ coll = FALSE /\ embModel = FALSE
    /\ last = NoOp
    /\ lastGood = [p \in Paths |-> {}]
    /\ ConcIdle /\ QueryIdle /\ LazyIdle

SpecSplit ==
    SplitInit /\ [][SplitNext]_vars

C1_EveryIterationAdvances ==
    [][(sPc = "loop" /\ sPc' = "loop") => sStart' >= sStart + 1]_vars

\* the same operations, with lastGood kept
NextHistory == IndexTracked \/ Delete \/ Reset \/ Stats \/ Restart

SpecHistory == Init /\ [][NextHistory]_vars

\* the records of source p in collection s
SourceChunks(s, p) == {r \in s : r.metadata.source = p}

(***************************************************************************)
(* C2: after any sequence of index_document, delete_document and           *)
(* reset_knowledge_base calls, store calls allowed to raise, the           *)
(* collection holds for every source either no chunk or exactly the chunks *)
(* 0..N-1 of the source's most recent successful indexing.                 *)
(***************************************************************************)
C2_NoMixedGenerations ==
    \A p \in Paths :
        SourceChunks(store, p) = {} \/ SourceChunks(store, p) = lastGood[p]

(***************************************************************************)
(* C3: index_document twice in a row on one source with unchanged content  *)
(* leaves the same chunk count and the same ids as the first call, and a   *)
(* re-index that yields fewer chunks than the collection held for the      *)
(* source leaves no chunk of a higher ordinal behind.                      *)
(***************************************************************************)
C3_ReindexIdempotent ==
    [][(last'.op = "index" /\ last'.success) =>
          LET p == last'.path
              before == SourceChunks(store, p)
              after  == SourceChunks(store', p)
          IN  /\ (/\ last.op = "index" /\ last.success /\ last.path = p
                  /\ lastGood'[p] = lastGood[p])
                 => /\ Ids(after) = Ids(before)
                    /\ Cardinality(after) = Cardinality(before)
              /\ last'.n < Cardinality(before)
                 => \A r \in after : r.id[2] < last'.n]_vars

(***************************************************************************)
(* C4: a reset_knowledge_base call that returns success leaves the         *)
(* collection empty, so that get_stats right after it reports 0 documents  *)
(* and 0 chunks.  Stated for the calls during which no store call raised.  *)
(***************************************************************************)
C4_ResetEmpties ==
    (last.op = "reset" /\ last.success /\ last.raised = "none") =>
        /\ store = {}
        /\ GetStats(store, client, coll, "none").total_chunks = 0
        /\ GetStats(store, client, coll, "none").total_documents = 0

(***************************************************************************)
(* C6: index_document never reports success after a call made during it    *)
(* raised: the result is then success = false, chunks = 0.                 *)
(***************************************************************************)
C6_FailureReported ==
    (last.op = "index" /\ last.raised # "none") =>
        (~last.success /\ last.n = 0)

(***************************************************************************)
(* C10: a delete_document(p) whose store calls answer removes exactly the  *)
(* chunks whose source is p or whose filename is the basename of p, leaves *)
(* every other chunk as it was, returns success with deleted = the number  *)
(* of chunks removed, and leaves list_documents without an entry for p.    *)
(***************************************************************************)
C10_DeleteExact ==
    [][(last'.op = "delete" /\ last'.raised = "none") =>
          LET p == last'.path
              gone == {r \in store : \/ r.metadata.source = p
                                     \/ r.metadata.filename = Basename(p)}
          IN  /\ store' = store \ gone
              /\ last'.success
              /\ last'.n = Cardinality(gone)
              /\ \A e \in ListDocuments(store') : e.source # p]_vars

\* a source indexed into two chunks has been deleted, deleted = 2 reported,
\* and the listing is empty
C10_Witness ==
    /\ last.op = "delete" /\ last.success /\ last.n = 2
    /\ ListDocuments(store) = {}


(***************************************************************************)
(* SpecConc: two index_document calls on one source path, each past its    *)
(* load, split and embed steps, interleaved at the granularity of their    *)
(* store calls: the metadata scan and the delete of delete_document, and   *)
(* the insert.                                                             *)
(***************************************************************************)
Procs == {1, 2}
ConcDocs == {DocA, DocB}

ConcInit ==
    /\ \E p \in Paths :
          /\ job \in [Procs -> [path : {p}, doc : ConcDocs]]
          /\ store \in {{}} \cup {Records(p, AllChunks(p, d).chunks) : d \in ConcDocs}
    /\ pc = [i \in Procs |-> "scan"]
    /\ scanned = [i \in Procs |-> {}]
    /\ inserted = <<>>
    /\ client = TRUE /\ coll = TRUE /\ embModel = TRUE
    /\ last = NoOp
    /\ lastGood = [p \in Paths |-> {}]
    /\ SplitIdle /\ QueryIdle /\ LazyIdle

\* delete_document, lines 247-252: collection.get and the loop over it
ConcScan(i) ==
    /\ pc[i] = "scan"
    /\ scanned' = [scanned EXCEPT ![i] = Ids(Matching(store, job[i].path))]
    /\ pc' = [pc EXCEPT ![i] = "delete"]
    /\ UNCHANGED <<store, job, inserted>>
    /\ UNCHANGED <<client, coll, embModel, last, lastGood, splitVars, qry, lazyVars>>

\* delete_document, lines 254-258: collection.delete(ids), if any id matched
ConcDelete(i) ==
    /\ pc[i] = "delete"
    /\ store' = IF scanned[i] # {}
                THEN {r \in store : r.id \notin scanned[i]}
                ELSE store
    /\ pc' = [pc EXCEPT ![i] = "add"]
    /\ UNCHANGED <<job, scanned, inserted>>
    /\ UNCHANGED <<client, coll, embModel, last, lastGood, splitVars, qry, lazyVars>>

\* index_document, lines 147-158: collection.add, and the return
ConcAdd(i) ==
    /\ pc[i] = "add"
    /\ store' = StoreAdd(store, Records(job[i].path,
                                        AllChunks(job[i].path, job[i].doc).chunks))
    /\ inserted' = Append(inserted, i)
    /\ pc' = [pc EXCEPT ![i] = "done"]
    /\ UNCHANGED <<job, scanned>>
    /\ UNCHANGED <<client, coll, embModel, last, lastGood, splitVars, qry, lazyVars>>

ConcNext == \E i \in Procs : ConcScan(i) \/ ConcDelete(i) \/ ConcAdd(i)

SpecConc == ConcInit /\ [][ConcNext]_vars

(***************************************************************************)
(* C5: last writer wins.  Once both index_document calls on the source     *)
(* have returned, the collection holds for it exactly the chunks 0..N-1,   *)
(* with their texts, of the call whose insert ran last, and no chunk text  *)
(* of the other call.                                                      *)
(***************************************************************************)
C5_LastWriterWins ==
    (\A i \in Procs : pc[i] = "done") =>
        LET w == inserted[Len(inserted)]
        IN  SourceChunks(store, job[w].path)
                = Records(job[w].path, AllChunks(job[w].path, job[w].doc).chunks)


(***************************************************************************)
(* SpecQuery: one query() call.  Similarities are fixed-point numbers:     *)
(* Grid steps make 1.0 at the precision query() reports (4 decimals), and  *)
(* an unrounded value has SubGrid steps for each of them.                  *)
(***************************************************************************)
\* round(similarity, 4)
Places == 4
\* steps of an unrounded value per step of a reported one
SubGrid == 10
\* the largest top_k tried
MaxTopK == 3

RECURSIVE Pow10(_)
Pow10(n) == IF n = 0 THEN 1 ELSE 10 * Pow10(n - 1)
Grid == Pow10(Places)
One == Grid * SubGrid

\* similarity = max(0.0, 1.0 - distance / 2.0), distance in steps of 1/One
Similarity(distance) == Max(0, One - distance \div 2)

\* round(similarity, 4) in steps of 1/Grid; up says which way a value
\* halfway between two steps goes (Python rounds the binary value, which
\* lies on one side or, when exact, goes to the even neighbour)
Round4(x, up) ==
    LET q == x \div SubGrid
        r == x % SubGrid
    IN  IF 2 * r < SubGrid THEN q
        ELSE IF 2 * r > SubGrid THEN q + 1
        ELSE IF up THEN q + 1 ELSE q

\* the comparison the other way round
KeepsInverted(similarity, threshold) == similarity <= threshold

\* if similarity >= score_threshold
Keeps(similarity, threshold) == similarity >= threshold

\* the loop of lines 188-202 from position i of the store's answer on;
\* rank is the position of a result in the answer
RECURSIVE Collect(_, _, _, _)
Collect(answer, i, threshold, up) ==
    IF i > Len(answer) THEN <<>>
    ELSE LET similarity == Similarity(answer[i].distance)
             rest == Collect(answer, i + 1, threshold, up)
         IN  IF Keeps(similarity, threshold)
             THEN <<[text |-> answer[i].rec.text,
                     metadata |-> answer[i].rec.metadata,
                     similarity |-> Round4(similarity, up),
                     rank |-> i]>> \o rest
             ELSE rest

\* top_k passed on as it came
ActualTopKUnclamped(top_k, total_docs) == top_k

\* actual_top_k = min(top_k, total_docs)
ActualTopK(top_k, total_docs) == Min(top_k, total_docs)

\* a test for the empty text only
IsBlankEmptyOnly(text) == text = <<>>

\* not query_text.strip()
IsBlank(text) == Strip(text) = <<>>

QueryFaults ==
    {"none", "embed_init", "encode", "client", "create", "count", "query"}

\* query(): q holds the arguments, the fault and the store's answer to
\* collection.query.  embedCalls counts the encode calls made and nResults
\* is the n_results passed to collection.query, -1 when it was not called;
\* storeCalls counts the calls made of _get_collection, collection.count
\* and collection.query.
Query(s, cl, co, em, q) ==
    LET gc == GetCollection(cl, co, q.fault)
        total_docs == Cardinality(s)
        actual_top_k == ActualTopK(q.top_k, total_docs)
        out(cl2, co2, em2, raised, embeds, stores, n, sims, res) ==
            [client |-> cl2, coll |-> co2, embModel |-> em2, raised |-> raised,
             embedCalls |-> embeds, storeCalls |-> stores, nResults |-> n,
             sims |-> sims, results |-> res]
    IN  IF IsBlank(q.text)
        THEN out(cl, co, em, FALSE, 0, 0, -1, <<>>, <<>>)
        ELSE IF q.fault = "embed_init" /\ ~em
        THEN out(cl, co, em, TRUE, 0, 0, -1, <<>>, <<>>)
        ELSE IF q.fault = "encode"
        THEN out(cl, co, TRUE, TRUE, 1, 0, -1, <<>>, <<>>)
        ELSE IF ~gc.ok
        THEN out(gc.client, gc.coll, TRUE, TRUE, 1, 1, -1, <<>>, <<>>)
        ELSE IF q.fault = "count"
        THEN out(gc.client, gc.coll, TRUE, TRUE, 1, 2, -1, <<>>, <<>>)
        ELSE IF total_docs = 0
        THEN out(gc.client, gc.coll, TRUE, FALSE, 1, 2, -1, <<>>, <<>>)
        ELSE IF q.fault = "query"
        THEN out(gc.client, gc.coll, TRUE, TRUE, 1, 3, actual_top_k,
                 <<>>, <<>>)
        ELSE out(gc.client, gc.coll, TRUE, FALSE, 1, 3, actual_top_k,
                 [i \in 1..Len(q.answer) |-> Similarity(q.answer[i].distance)],
                 Collect(q.answer, 1, q.threshold, q.up))

\* the collections queried: empty, and one source of one or two chunks
QueryStores ==
    {{}} \cup {Records("/docs/a.md", AllChunks("/docs/a.md", d).chunks) :
                 d \in {DocA, DocB}}

QueryTexts == {<<>>, <<" ", NL>>, <<"a">>}

\* score thresholds: 0, 0.5, 0.9, 0.9 and four steps (0.90004), 1.0
Thresholds == {0, One \div 2, (9 * One) \div 10, (9 * One) \div 10 + 4, One}

\* distances the store may report: around 0 (identical), around 0.2
\* (similarity 0.9) and around 2 (opposite), a little outside [0, 2] included
HalfDistances ==
    {-10, -5, -1, 0, 1, 5} \cup {One \div 10 + d : d \in {-6, -4, 0, 1, 4}}
        \cup {One - 1, One, One + 1}
Distances == {2 * h : h \in HalfDistances}

\* what collection.query may answer for n_results = k: k distinct records,
\* nearest first
StoreAnswers(s, k) ==
    {a \in [1..k -> [rec : s, distance : Distances]] :
        /\ \A i, j \in 1..k : i # j => a[i].rec # a[j].rec
        /\ \A i, j \in 1..k : i < j => a[i].distance <= a[j].distance}

\* whether the call gets as far as the answer of collection.query
ReachesAnswer(s, co, em, text, f) ==
    /\ Strip(text) # <<>>
    /\ s # {}
    /\ \/ f = "none"
       \/ f = "embed_init" /\ em
       \/ f \in {"client", "create"} /\ co

QueryInit ==
    /\ store \in QueryStores
    /\ \E warm \in BOOLEAN : client = warm /\ coll = warm /\ embModel = warm
    /\ \E text \in QueryTexts, k \in 1..MaxTopK, t \in Thresholds,
          f \in QueryFaults, up \in BOOLEAN :
          \E a \in IF ReachesAnswer(store, coll, embModel, text, f)
                    THEN StoreAnswers(store, Min(k, Cardinality(store)))
                    ELSE {<<>>} :
             qry = [op |-> "call", text |-> text, top_k |-> k, threshold |-> t,
                    fault |-> f, up |-> up, answer |-> a,
                    raised |-> FALSE, embedCalls |-> 0, storeCalls |-> 0,
                    nResults |-> -1,
                    sims |-> <<>>, results |-> <<>>]
    /\ last = NoOp
    /\ lastGood = [p \in Paths |-> {}]
    /\ SplitIdle /\ ConcIdle /\ LazyIdle

QueryCall ==
    /\ qry.op = "call"
    /\ \E o \in {Query(store, client, coll, embModel, qry)} :
          /\ client' = o.client
          /\ coll' = o.coll
          /\ embModel' = o.embModel
          /\ qry' = [qry EXCEPT !.op = "done", !.raised = o.raised,
                                !.embedCalls = o.embedCalls,
                                !.storeCalls = o.storeCalls,
                                !.nResults = o.nResults, !.sims = o.sims,
                                !.results = o.results]
    /\ UNCHANGED <<store, last, lastGood, splitVars, concVars, lazyVars>>

QueryNext == QueryCall

SpecQuery == QueryInit /\ [][QueryNext]_vars


(***************************************************************************)
(* C7: for a non-blank query text on an empty collection, query returns    *)
(* the empty sequence at once: no call of the embedding model, no          *)
(* nearest-neighbour request, and no error whatever the embedding model    *)
(* does.  Stated for the calls whose store calls answer.                   *)
(***************************************************************************)
C7_EmptyCollectionImmediate ==
    (/\ qry.op = "done" /\ Strip(qry.text) # <<>> /\ store = {}
     /\ qry.fault \notin {"client", "create", "count"})
        => /\ qry.results = <<>>
           /\ ~qry.raised
           /\ qry.embedCalls = 0
           /\ qry.nResults = -1

(***************************************************************************)
(* C8, as claimed: every result query returns carries a similarity, the    *)
(* value rounded to 4 decimals, that is >= score_threshold.                *)
(***************************************************************************)
C8_ReportedAboveThreshold ==
    qry.op = "done" =>
        \A i \in 1..Len(qry.results) :
            qry.results[i].similarity * SubGrid >= qry.threshold

(***************************************************************************)
(* C8, as amended: every result query returns has an unrounded similarity  *)
(* >= score_threshold; the similarity it carries, rounded to 4 decimals,   *)
(* is >= score_threshold when the threshold has at most 4 decimals, and    *)
(* otherwise lies below it by at most half a step of the 4th decimal.      *)
(***************************************************************************)
C8_UnroundedAboveThreshold ==
    qry.op = "done" =>
        \A i \in 1..Len(qry.results) :
            LET r == qry.results[i]
            IN  /\ qry.sims[r.rank] >= qry.threshold
                /\ qry.threshold % SubGrid = 0
                      => r.similarity * SubGrid >= qry.threshold
                /\ 2 * (qry.threshold - r.similarity * SubGrid) <= SubGrid

\* threshold 0.9: of two neighbours the nearer, at similarity 0.9 exactly,
\* is returned and the other is dropped
C8_Witness ==
    /\ qry.op = "done"
    /\ qry.threshold = (9 * One) \div 10
    /\ Len(qry.answer) = 2 /\ Len(qry.results) = 1
    /\ qry.results[1].similarity * SubGrid = qry.threshold

(***************************************************************************)
(* C9: the similarity query reports lies in [0, 1] for every distance the  *)
(* store returns, values a little outside [0, 2] included; distance 0      *)
(* converts to 1.0 and distance 2 to 0.0; and the conversion never         *)
(* increases with the distance.                                            *)
(***************************************************************************)
C9_SimilarityContract ==
    qry.op = "done" =>
        /\ \A i \in 1..Len(qry.results) :
              /\ 0 <= qry.results[i].similarity
              /\ qry.results[i].similarity <= Grid
        /\ \A i \in 1..Len(qry.sims) :
              /\ qry.answer[i].distance = 0 => qry.sims[i] = One
              /\ qry.answer[i].distance = 2 * One => qry.sims[i] = 0
        /\ \A i, j \in 1..Len(qry.sims) :
              qry.answer[i].distance <= qry.answer[j].distance
                  => qry.sims[i] >= qry.sims[j]

(***************************************************************************)
(* C11: query never requests more neighbours than exist.  For every        *)
(* top_k >= 1 on a non-empty collection, the n_results passed to           *)
(* collection.query is min(top_k, count()); a query with top_k above       *)
(* count() returns at most count() results and, no call failing, does not  *)
(* raise.                                                                  *)
(***************************************************************************)
C11_EffectiveKClamped ==
    (qry.op = "done" /\ qry.nResults # -1) =>
        /\ qry.top_k <= Cardinality(store) => qry.nResults = qry.top_k
        /\ qry.top_k > Cardinality(store) => qry.nResults = Cardinality(store)
        /\ Len(qry.results) <= Cardinality(store)
        /\ qry.fault = "none" => ~qry.raised

\* top_k = 3 on a collection of two chunks: two neighbours are requested,
\* both are returned and nothing is raised
C11_Witness ==
    /\ qry.op = "done" /\ qry.top_k = 3 /\ Cardinality(store) = 2
    /\ qry.nResults = 2 /\ Len(qry.results) = 2 /\ ~qry.raised

(***************************************************************************)
(* C12: for every empty or whitespace-only query text, in every state of   *)
(* the collection and of the globals, query returns the empty sequence     *)
(* and raises nothing, with no call of the embedding model and none of     *)
(* the store, and leaves the globals and the collection as they were.      *)
(***************************************************************************)
C12_BlankQueryTouchesNothing ==
    [][(qry.op = "call" /\ \A i \in 1..Len(qry.text) : qry.text[i] \in Whitespace)
          => /\ qry'.results = <<>>
             /\ ~qry'.raised
             /\ qry'.embedCalls = 0
             /\ qry'.storeCalls = 0
             /\ qry'.nResults = -1
             /\ <<store, client, coll, embModel>>' = <<store, client, coll, embModel>>]_vars

\* a whitespace-only query on a non-empty collection, the globals not yet
\* initialised and the embedding model unable to load, has returned
C12_Witness ==
    /\ qry.op = "done" /\ qry.text = <<" ", NL>> /\ qry.fault = "embed_init"
    /\ store # {} /\ ~embModel /\ ~coll
    /\ qry.results = <<>> /\ ~qry.raised /\ qry.embedCalls = 0

(***************************************************************************)
(* C13: an index_document call that fails before its delete step, because  *)
(* the loader raised, the flattened chunk list is empty or the embedding   *)
(* call raised, returns success = false with chunks = 0 and leaves the     *)
(* collection (ids, texts and metadata of every source, the one being      *)
(* indexed included) exactly as it was.                                    *)
(***************************************************************************)
C13_EarlyFailureLeavesStore ==
    [][(/\ last'.op = "index"
        /\ \/ last'.raised \in {"load", "embed"}
           \/ last'.raised = "none" /\ ~last'.success)
          => /\ ~last'.success
             /\ last'.n = 0
             /\ store' = store]_vars

\* the embedding call raised during the re-indexing of a source that the
\* collection holds chunks of
C13_Witness ==
    /\ last.op = "index" /\ ~last.success /\ last.raised = "embed"
    /\ SourceChunks(store, last.path) # {}

(***************************************************************************)
(* C15: a successful index_document(p) changes only the chunks of source   *)
(* p: for every other source q, one in another directory with the file     *)
(* name of p included, the chunks whose metadata.source is q are the same  *)
(* after the call as before it.                                            *)
(***************************************************************************)
C15_IndexFrame ==
    [][(last'.op = "index" /\ last'.success)
          => \A q \in Paths \ {last'.path} :
                SourceChunks(store', q) = SourceChunks(store, q)]_vars


(***************************************************************************)
(* SpecLazy: the threads of the host each call _get_collection and         *)
(* _get_embedding_model, MaxCalls calls a thread, in a process whose       *)
(* globals are None.  A step is one statement of a getter: the test of the *)
(* global, a construction with the assignment of its result, the return.   *)
(* The getters take no lock, so the steps of the threads interleave.       *)
(***************************************************************************)
\* the calls of a getter each thread makes
MaxCalls == 2

LazyInit ==
    /\ tpc = [i \in Procs |-> "idle"]
    /\ calls = [i \in Procs |-> 0]
    /\ got = [i \in Procs |-> [coll |-> 0, model |-> 0]]
    /\ instance = [client |-> 0, coll |-> 0, model |-> 0]
    /\ built = [client |-> 0, coll |-> 0, model |-> 0]
    /\ StoreIdle /\ SplitIdle /\ ConcIdle /\ QueryIdle

\* _get_collection, line 60: if _collection is None
CollTest(i) ==
    /\ tpc[i] = "idle" /\ calls[i] < MaxCalls
    /\ calls' = [calls EXCEPT ![i] = @ + 1]
    /\ tpc' = [tpc EXCEPT ![i] = IF coll THEN "coll_return" ELSE "coll_client"]
    /\ UNCHANGED <<instance, built, got, client, coll, embModel>>
    /\ UNCHANGED <<store, last, lastGood, splitVars, concVars, qry>>

\* _get_collection, line 67: _chroma_client = chromadb.PersistentClient(...)
CollClient(i) ==
    /\ tpc[i] = "coll_client"
    /\ built' = [built EXCEPT !.client = @ + 1]
    /\ instance' = [instance EXCEPT !.client = built.client + 1]
    /\ client' = TRUE
    /\ tpc' = [tpc EXCEPT ![i] = "coll_create"]
    /\ UNCHANGED <<calls, got, coll, embModel>>
    /\ UNCHANGED <<store, last, lastGood, splitVars, concVars, qry>>

\* _get_collection, lines 68-71:
\* _collection = _chroma_client.get_or_create_collection(...)
CollCreate(i) ==
    /\ tpc[i] = "coll_create"
    /\ built' = [built EXCEPT !.coll = @ + 1]
    /\ instance' = [instance EXCEPT !.coll = built.coll + 1]
    /\ coll' = TRUE
    /\ tpc' = [tpc EXCEPT ![i] = "coll_return"]
    /\ UNCHANGED <<calls, got, client, embModel>>
    /\ UNCHANGED <<store, last, lastGood, splitVars, concVars, qry>>

\* _get_collection, line 72: return _collection
CollReturn(i) ==
    /\ tpc[i] = "coll_return"
    /\ got' = [got EXCEPT ![i].coll = instance.coll]
    /\ tpc' = [tpc EXCEPT ![i] = "idle"]
    /\ UNCHANGED <<calls, instance, built, client, coll, embModel>>
    /\ UNCHANGED <<store, last, lastGood, splitVars, concVars, qry>>

\* _get_embedding_model, line 48: if _embedding_model is None
ModelTest(i) ==
    /\ tpc[i] = "idle" /\ calls[i] < MaxCalls
    /\ calls' = [calls EXCEPT ![i] = @ + 1]
    /\ tpc' = [tpc EXCEPT ![i] = IF embModel THEN "model_return"
                                 ELSE "model_build"]
    /\ UNCHANGED <<instance, built, got, client, coll, embModel>>
    /\ UNCHANGED <<store, last, lastGood, splitVars, concVars, qry>>

\* _get_embedding_model, line 53:
\* _embedding_model = SentenceTransformer(model_name, device=device)
ModelBuild(i) ==
    /\ tpc[i] = "model_build"
    /\ built' = [built EXCEPT !.model = @ + 1]
    /\ instance' = [instance EXCEPT !.model = built.model + 1]
    /\ embModel' = TRUE
    /\ tpc' = [tpc EXCEPT ![i] = "model_return"]
    /\ UNCHANGED <<calls, got, client, coll>>
    /\ UNCHANGED <<store, last, lastGood, splitVars, concVars, qry>>

\* _get_embedding_model, line 54: return _embedding_model
ModelReturn(i) ==
    /\ tpc[i] = "model_return"
    /\ got' = [got EXCEPT ![i].model = instance.model]
    /\ tpc' = [tpc EXCEPT ![i] = "idle"]
    /\ UNCHANGED <<calls, instance, built, client, coll, embModel>>
    /\ UNCHANGED <<store, last, lastGood, splitVars, concVars, qry>>

LazyNext ==
    \E i \in Procs :
        \/ CollTest(i) \/ CollClient(i) \/ CollCreate(i) \/ CollReturn(i)
        \/ ModelTest(i) \/ ModelBuild(i) \/ ModelReturn(i)

SpecLazy == LazyInit /\ [][LazyNext]_vars

(***************************************************************************)
(* C14: lazy initialisation is once-only.  Under every interleaving of     *)
(* concurrent first uses the store client, the collection and the          *)
(* embedding model are each constructed at most once, and all callers are  *)
(* handed the same collection and the same model.                          *)
(***************************************************************************)
C14_InitialisedOnce ==
    /\ built.client <= 1 /\ built.coll <= 1 /\ built.model <= 1
    /\ \A i, j \in Procs :
          /\ (got[i].coll # 0 /\ got[j].coll # 0) => got[i].coll = got[j].coll
          /\ (got[i].model # 0 /\ got[j].model # 0)
                => got[i].model = got[j].model

=============================================================================
